---- MODULE Spec2Model ----
(***************************************************************************)
(* Employee ingestion service (src/main.py): the two tables of the store,  *)
(* the upload handler upload_employees and the listing handler             *)
(* get_employees.                                                          *)
(*                                                                         *)
(* Values.  A pandas cell is NaN (an empty cell) or Cell(v).  A numeric    *)
(* cell carries its value in tenths (Cell(25) is 2.5), so that int() is a  *)
(* truncation and not the identity.  A Python / SQL value that may be      *)
(* absent is None or Some(v).                                              *)
(*                                                                         *)
(* Columns FIRST_NAME, LAST_NAME, PHONE_NUMBER are converted with str(),   *)
(* which never raises and always gives a str; they are left out of the     *)
(* rows.  A coercion failure is reached through an empty EMPLOYEE_ID cell  *)
(* (int(nan) raises ValueError).                                           *)
(*                                                                         *)
(* The store.  SQLite behind SQLAlchemy: a writer holds the database from  *)
(* its first INSERT to its commit, so INSERT-and-commit is one step; the   *)
(* primary key of a new row is the next rowid.                             *)
(*                                                                         *)
(* Two specifications.  Spec serves the requests one at a time, a handler  *)
(* being one action (after line 75 a handler never awaits).  SpecConc      *)
(* runs the handlers of several workers one statement group at a time.     *)
(***************************************************************************)
EXTENDS Integers, Sequences, FiniteSets, TLC

\* ------------------------------------------------------------- bounds
MaxRows == 2
MaxRequests == 2
NumProcs == 2

\* ------------------------------------------------------------- values
NaN == [nan |-> TRUE]
Cell(v) == [v |-> v]
None == <<>>
Some(v) == <<v>>

\* pd.isnull(cell)
isnull(c) == c = NaN

\* int(cell) of a numeric cell held in tenths: truncation towards zero.
\* int(NaN) raises ValueError: callers test IntRaises first.
int(c) == c.v \div 10
IntRaises(c) == isnull(c)

\* float(cell): a numeric cell is a float already, and float(nan) is nan.
float(c) == c

\* What the sqlite driver binds for a cell: NaN is bound as NULL.
Bind(c) == IF isnull(c) THEN None ELSE Some(c.v)

\* ------------------------------------------------------------- inputs
required_columns ==
    {"EMPLOYEE_ID", "FIRST_NAME", "LAST_NAME", "PHONE_NUMBER",
     "COMPANY_NAME", "SALARY", "MANAGER_ID", "DEPARTMENT_ID"}

EmployeeIdCells == {Cell(10), Cell(20), NaN}
CompanyNameCells == {Cell("A"), Cell("B"), NaN}
SalaryCells == {Cell(505), NaN}

\* The (MANAGER_ID, DEPARTMENT_ID) cells that come with an EMPLOYEE_ID cell:
\* an empty and a fractional cell, or a zero and an empty cell.
OptionalIdCells(e) ==
    IF e = Cell(10) THEN <<NaN, Cell(25)>> ELSE <<Cell(0), NaN>>

Row(e, c, sal) ==
    [EMPLOYEE_ID |-> e, COMPANY_NAME |-> c, SALARY |-> sal,
     MANAGER_ID |-> OptionalIdCells(e)[1], DEPARTMENT_ID |-> OptionalIdCells(e)[2]]

\* A row with an empty EMPLOYEE_ID or COMPANY_NAME cell makes its upload
\* fail before any Employee is stored, so its SALARY cell is never read
\* back: such rows come with one salary only.
Rows ==
    {Row(e, c, sal) : e \in EmployeeIdCells \ {NaN}, c \in CompanyNameCells \ {NaN},
                      sal \in SalaryCells}
    \cup {Row(e, c, Cell(505)) : e \in EmployeeIdCells, c \in {NaN}}
    \cup {Row(e, c, Cell(505)) : e \in {NaN}, c \in CompanyNameCells}

RowSeqs == UNION {[1..n -> Rows] : n \in 0..MaxRows}

\* An uploaded file: its name's extension, whether pandas can read its
\* content, and the table read from it (columns, rows).
File(e, r, cs, rs) == [ext |-> e, readable |-> r, columns |-> cs, rows |-> rs]

\* Files that pass the validation.
GoodFiles == {File(".csv", TRUE, required_columns, rs) : rs \in RowSeqs}

\* Files without rows: every extension, unreadable or readable with all the
\* required columns or all but one.
EmptyFiles ==
    {File(e, FALSE, {}, <<>>) : e \in {".csv", ".xlsx", ".txt"}}
    \cup {File(e, TRUE, cs, <<>>) :
            e \in {".csv", ".xlsx", ".txt"},
            cs \in {required_columns} \cup
                   {required_columns \ {c} : c \in required_columns}}

Files == GoodFiles \cup EmptyFiles

\* ------------------------------------------------------------- the handler's steps
\* line 72
SupportedExtension(f) == f.ext \in {".xlsx", ".csv"}

\* lines 74-81: read_excel / read_csv raise on content pandas cannot read
ReadRaises(f) == ~f.readable

\* Variant of HasRequiredColumns with any() for all().
HasRequiredColumns_Any(f) == \E col \in required_columns : col \in f.columns

\* line 87
HasRequiredColumns(f) == \A col \in required_columns : col \in f.columns

\* Series.drop_duplicates(): the first occurrence of each value, in order;
\* NaN cells count as equal to each other.
RECURSIVE drop_duplicates(_)
drop_duplicates(s) ==
    IF s = <<>> THEN <<>>
    ELSE LET init == drop_duplicates(SubSeq(s, 1, Len(s) - 1))
             last == s[Len(s)]
         IN  IF \E i \in 1..Len(init) : init[i] = last THEN init
             ELSE Append(init, last)

\* Variant of company_names without drop_duplicates(): every cell, in order.
company_names_NoDedup(f) ==
    [i \in 1..Len(f.rows) |-> f.rows[i].COMPANY_NAME]

\* line 91
company_names(f) ==
    drop_duplicates([i \in 1..Len(f.rows) |-> f.rows[i].COMPANY_NAME])

\* SQL: column IN (bound parameters).  NULL IN (...) and x IN (NULL) are
\* never true.
SqlIn(value, params) ==
    /\ value # None
    /\ \E i \in 1..Len(params) : Bind(params[i]) # None /\ Bind(params[i]) = value

\* lines 95 and 102: session.query(Company).filter(company_name.in_(names)).all()
QueryCompanies(table, names) ==
    SelectSeq(table, LAMBDA c : SqlIn(c.company_name, names))

\* line 96
existing_company_names(table, names) ==
    {QueryCompanies(table, names)[i].company_name :
        i \in 1..Len(QueryCompanies(table, names))}

\* A name of the file is in the set of names the store returned: a str
\* cell equals the stored str, a NaN cell equals no stored value.
InNames(c, stored) == ~isnull(c) /\ Some(c.v) \in stored

\* Variant of new_companies without the existence filter.
new_companies_NoFilter(names, existing) == names

\* line 97
new_companies(names, existing) ==
    SelectSeq(names, LAMBDA n : ~InNames(n, existing))

\* Variant of CompanyUniqueViolation for a column without unique=True.
CompanyUniqueViolation_NoConstraint(table, new) == FALSE

\* Column(String, unique=True): an INSERT of a non-NULL name already in the
\* table raises IntegrityError; NULL names never conflict.
CompanyUniqueViolation(table, new) ==
    \E i \in 1..Len(new) :
        /\ Bind(new[i]) # None
        /\ \/ \E j \in 1..Len(table) : table[j].company_name = Bind(new[i])
           \/ \E j \in 1..(i - 1) : Bind(new[j]) = Bind(new[i])

\* lines 98-99: the INSERTs; id is the next rowid (no row is ever deleted).
InsertCompanies(table, new) ==
    table \o [i \in 1..Len(new) |->
                [id |-> Len(table) + i, company_name |-> Bind(new[i])]]

\* Variant of company_name_to_id that maps a name to its position in the
\* query result (enumerate, from 0) instead of c.id.
company_name_to_id_ByIndex(table, names) ==
    {<<QueryCompanies(table, names)[i].company_name, i - 1>> :
        i \in 1..Len(QueryCompanies(table, names))}

\* line 103: {c.company_name: c.id for c in all_companies}
company_name_to_id(table, names) ==
    {<<QueryCompanies(table, names)[i].company_name, QueryCompanies(table, names)[i].id>> :
        i \in 1..Len(QueryCompanies(table, names))}

\* line 116: company_name_to_id[row["COMPANY_NAME"]] raises KeyError
LookupRaises(mapping, c) == ~\E kv \in mapping : InNames(c, {kv[1]})
Lookup(mapping, c) == (CHOOSE kv \in mapping : InNames(c, {kv[1]}))[2]

\* Variant of OptionalInt that stores 0 for an empty cell.
OptionalInt_ZeroForNull(c) == IF ~isnull(c) THEN Some(int(c)) ELSE Some(0)

\* lines 114-115
OptionalInt(c) == IF ~isnull(c) THEN Some(int(c)) ELSE None

\* lines 108-117: one Employee(...) construction
RowRaises(row, mapping) ==
    \/ IntRaises(row.EMPLOYEE_ID)
    \/ LookupRaises(mapping, row.COMPANY_NAME)

MakeEmployee(row, mapping) ==
    [employee_id |-> int(row.EMPLOYEE_ID),
     salary |-> float(row.SALARY),
     manager_id |-> OptionalInt(row.MANAGER_ID),
     department_id |-> OptionalInt(row.DEPARTMENT_ID),
     company_id |-> Lookup(mapping, row.COMPANY_NAME)]

\* lines 106-117
BuildRaises(f, mapping) == \E i \in 1..Len(f.rows) : RowRaises(f.rows[i], mapping)
employees_to_create(f, mapping) ==
    [i \in 1..Len(f.rows) |-> MakeEmployee(f.rows[i], mapping)]

\* Variant of EmployeeUniqueViolation for a column without unique=True.
EmployeeUniqueViolation_NoConstraint(table, new) == FALSE

\* Column(Integer, unique=True) on employees.employee_id
EmployeeUniqueViolation(table, new) ==
    \E i \in 1..Len(new) :
        \/ \E j \in 1..Len(table) : table[j].employee_id = new[i].employee_id
        \/ \E j \in 1..(i - 1) : new[j].employee_id = new[i].employee_id

\* lines 118-119: the INSERTs; a nan salary is stored as NULL
InsertEmployees(table, new) ==
    table \o [i \in 1..Len(new) |->
                [id |-> Len(table) + i,
                 employee_id |-> new[i].employee_id,
                 salary |-> Bind(new[i].salary),
                 manager_id |-> new[i].manager_id,
                 department_id |-> new[i].department_id,
                 company_id |-> new[i].company_id]]

\* lines 135-149: one EmployeeResponse per Employee row, the company found
\* by id (line 138); no company gives None (line 147)
CompanyNameOf(ctable, id) ==
    IF \E j \in 1..Len(ctable) : ctable[j].id = id
    THEN (CHOOSE c \in {ctable[j] : j \in 1..Len(ctable)} : c.id = id).company_name
    ELSE None

\* lines 56-64 and 139-148: EmployeeResponse(...) raises ValidationError
\* for a salary or a company_name that is None (fields float and str)
ResponseRaises(etable, ctable) ==
    \E i \in 1..Len(etable) :
        \/ etable[i].salary = None
        \/ CompanyNameOf(ctable, etable[i].company_id) = None

ListEmployees(etable, ctable) ==
    [i \in 1..Len(etable) |->
        [employee_id |-> etable[i].employee_id,
         salary |-> etable[i].salary,
         manager_id |-> etable[i].manager_id,
         department_id |-> etable[i].department_id,
         company_name |-> CompanyNameOf(ctable, etable[i].company_id)]]

\* ------------------------------------------------------------- state
VARIABLES
    companies,   \* table companies: committed rows [id, company_name]
    employees,   \* table employees: committed rows
    ingested,    \* history: for each row of employees, its COMPANY_NAME cell
    uploaded,    \* history: the files whose upload was answered with 200
    started,     \* number of requests received so far
    req          \* per worker: the request it is serving (locals of the handler)

vars == <<companies, employees, ingested, uploaded, started, req>>

Procs == 1..NumProcs

DB == [companies |-> companies, employees |-> employees, ingested |-> ingested]

NoFile == [ext |-> "", readable |-> FALSE, columns |-> {}, rows |-> <<>>]
NoPending == [companies |-> <<>>, employees |-> <<>>, cells |-> <<>>]

\* A worker with no request.  session: "none" (never acquired), "open",
\* "closed".  pending: the rows the session has written and not committed.
IdleReq ==
    [pc |-> "idle", handler |-> "none", file |-> NoFile, content_read |-> FALSE,
     session |-> "none", pending |-> NoPending,
     new_companies |-> <<>>, company_name_to_id |-> {}, employees_to_create |-> <<>>,
     raised |-> "none", status |-> 0, detail |-> "",
     companies_created |-> 0, employees_created |-> 0, result |-> <<>>,
     pre |-> [companies |-> <<>>, employees |-> <<>>]]

\* ------------------------------------------------------------- session
\* session.commit(): the pending rows become rows of the tables
commit(db, r) ==
    [db |-> [companies |-> db.companies \o r.pending.companies,
             employees |-> db.employees \o r.pending.employees,
             ingested |-> db.ingested \o r.pending.cells],
     r |-> [r EXCEPT !.pending = NoPending]]

\* session.rollback(): the pending rows are dropped; committed rows stay
rollback(db, r) == [db |-> db, r |-> [r EXCEPT !.pending = NoPending]]

\* session.close()
close(r) == [r EXCEPT !.session = "closed", !.pending = NoPending]

\* ------------------------------------------------------------- upload_employees
\* lines 71-92: validation, then SessionLocal()
BeginUpload(db, f) ==
    LET r0 == [IdleReq EXCEPT !.handler = "upload", !.file = f,
                              !.pre = [companies |-> db.companies,
                                       employees |-> db.employees]]
    IN  IF ~SupportedExtension(f)
        THEN [r0 EXCEPT !.pc = "done", !.status = 400,
                        !.detail = "File must be .xlsx or .csv"]
        ELSE IF ReadRaises(f)
        THEN [r0 EXCEPT !.pc = "done", !.status = 400, !.content_read = TRUE,
                        !.detail = "Error reading file"]
        ELSE IF ~HasRequiredColumns(f)
        THEN [r0 EXCEPT !.pc = "done", !.status = 400, !.content_read = TRUE,
                        !.detail = "Missing required columns in file."]
        ELSE [r0 EXCEPT !.pc = "check", !.content_read = TRUE, !.session = "open"]

\* lines 95-97
CheckStep(db, r) ==
    [db |-> db,
     r |-> [r EXCEPT !.pc = "insert",
                     !.new_companies =
                         new_companies(company_names(r.file),
                             existing_company_names(db.companies, company_names(r.file)))]]

\* lines 98-99; an IntegrityError goes to the except clause
InsertStep(db, r) ==
    IF CompanyUniqueViolation(db.companies, r.new_companies)
    THEN [db |-> db, r |-> [r EXCEPT !.pc = "except", !.raised = "UNIQUE constraint failed: companies.company_name"]]
    ELSE LET saved == [r EXCEPT !.pending.companies =
                           SubSeq(InsertCompanies(db.companies, r.new_companies),
                                  Len(db.companies) + 1,
                                  Len(db.companies) + Len(r.new_companies))]
             done == commit(db, saved)
         IN  [db |-> done.db, r |-> [done.r EXCEPT !.pc = "resolve"]]

\* lines 102-117; ValueError (int of NaN) and KeyError go to the except clause
ResolveStep(db, r) ==
    LET mapping == company_name_to_id(db.companies, company_names(r.file))
    IN  IF BuildRaises(r.file, mapping)
        THEN [db |-> db,
              r |-> [r EXCEPT !.pc = "except", !.company_name_to_id = mapping,
                              !.raised = "ValueError or KeyError"]]
        ELSE [db |-> db,
              r |-> [r EXCEPT !.pc = "save", !.company_name_to_id = mapping,
                              !.employees_to_create =
                                  employees_to_create(r.file, mapping)]]

\* lines 118-124
SaveStep(db, r) ==
    IF EmployeeUniqueViolation(db.employees, r.employees_to_create)
    THEN [db |-> db, r |-> [r EXCEPT !.pc = "except", !.raised = "UNIQUE constraint failed: employees.employee_id"]]
    ELSE LET saved == [r EXCEPT
                 !.pending.employees =
                     SubSeq(InsertEmployees(db.employees, r.employees_to_create),
                            Len(db.employees) + 1,
                            Len(db.employees) + Len(r.employees_to_create)),
                 !.pending.cells =
                     [i \in 1..Len(r.file.rows) |-> r.file.rows[i].COMPANY_NAME]]
             done == commit(db, saved)
         IN  [db |-> done.db,
              r |-> [done.r EXCEPT !.pc = "finally", !.status = 200,
                                   !.detail = "Data uploaded successfully.",
                                   !.companies_created = Len(r.new_companies),
                                   !.employees_created = Len(r.employees_to_create)]]

\* Variant of ExceptStep for a handler whose session.close() is not in a
\* finally clause: the 500 leaves without closing.
ExceptStep_NoFinally(db, r) ==
    [db |-> rollback(db, r).db,
     r |-> [rollback(db, r).r EXCEPT !.pc = "done", !.status = 500,
                                     !.detail = "Database error"]]

\* lines 125-127
ExceptStep(db, r) ==
    LET back == rollback(db, r)
    IN  [db |-> back.db,
         r |-> [back.r EXCEPT !.pc = "finally", !.status = 500,
                              !.detail = "Database error"]]

\* lines 128-129 and 150-151
FinallyStep(db, r) == [db |-> db, r |-> [close(r) EXCEPT !.pc = "done"]]

\* ------------------------------------------------------------- get_employees
\* line 133
BeginList(db) ==
    [IdleReq EXCEPT !.handler = "list", !.pc = "query", !.session = "open",
                    !.pre = [companies |-> db.companies, employees |-> db.employees]]

\* lines 135-149; get_employees has no except clause: a ValidationError
\* passes through the finally clause and the server answers 500
QueryStep(db, r) ==
    IF ResponseRaises(db.employees, db.companies)
    THEN [db |-> db,
          r |-> [r EXCEPT !.pc = "finally", !.status = 500,
                          !.raised = "ValidationError",
                          !.detail = "Internal Server Error"]]
    ELSE [db |-> db,
          r |-> [r EXCEPT !.pc = "finally", !.status = 200,
                          !.result = ListEmployees(db.employees, db.companies)]]

\* ------------------------------------------------------------- running a handler
Step(db, r) ==
    CASE r.pc = "check" -> CheckStep(db, r)
      [] r.pc = "insert" -> InsertStep(db, r)
      [] r.pc = "resolve" -> ResolveStep(db, r)
      [] r.pc = "save" -> SaveStep(db, r)
      [] r.pc = "except" -> ExceptStep(db, r)
      [] r.pc = "query" -> QueryStep(db, r)
      [] r.pc = "finally" -> FinallyStep(db, r)

\* A handler run to its end without another request in between: from line
\* 76 on the handler never awaits, so one event loop runs it in one piece.
RECURSIVE Run(_, _)
Run(db, r) ==
    IF r.pc = "done" THEN [db |-> db, r |-> r]
    ELSE LET next == Step(db, r) IN Run(next.db, next.r)

Apply(p, out) ==
    /\ companies' = out.db.companies
    /\ employees' = out.db.employees
    /\ ingested' = out.db.ingested
    /\ req' = [req EXCEPT ![p] = out.r]

Init ==
    /\ companies = <<>>
    /\ employees = <<>>
    /\ ingested = <<>>
    /\ uploaded = {}
    /\ started = 0
    /\ req = [p \in Procs |-> IdleReq]

\* The response leaves; the worker is free again.
Respond(p) ==
    /\ req[p].pc = "done"
    /\ uploaded' = IF req[p].handler = "upload" /\ req[p].status = 200
                   THEN uploaded \cup {req[p].file} ELSE uploaded
    /\ req' = [req EXCEPT ![p] = IdleReq]
    /\ UNCHANGED <<companies, employees, ingested, started>>

\* Workers are interchangeable: a request goes to the first free one.
FirstFree(p) == req[p].pc = "idle" /\ \A q \in 1..(p - 1) : req[q].pc # "idle"

\* ---- requests served one at a time, each handler in one piece
NoneInFlight == \A q \in Procs : req[q].pc = "idle"

\* A request can be taken by worker p, all the others being at rest.
CanServe(p) == FirstFree(p) /\ NoneInFlight /\ started < MaxRequests

UploadEmployees(p) ==
    /\ CanServe(p)
    /\ \E f \in Files : Apply(p, Run(DB, BeginUpload(DB, f)))
    /\ started' = started + 1
    /\ UNCHANGED uploaded

GetEmployees(p) ==
    /\ CanServe(p)
    /\ Apply(p, Run(DB, BeginList(DB)))
    /\ started' = started + 1
    /\ UNCHANGED uploaded

Next ==
    \E p \in Procs :
        \/ UploadEmployees(p)
        \/ GetEmployees(p)
        \/ Respond(p)

Spec == Init /\ [][Next]_vars

\* ---- requests served by concurrent workers, one step of a handler at a time
\* The files of concurrent requests: a rejected extension, a missing column,
\* and the files of one row, for the rows with at most one empty cell among
\* EMPLOYEE_ID and COMPANY_NAME; one of the rows has an empty SALARY.
ConcRows ==
    {r \in Rows :
        /\ r.EMPLOYEE_ID # NaN \/ r.COMPANY_NAME # NaN
        /\ r.SALARY = NaN => (r.EMPLOYEE_ID = Cell(10) /\ r.COMPANY_NAME = Cell("A"))}

ConcFiles ==
    {File(".txt", TRUE, required_columns, <<>>),
     File(".csv", TRUE, required_columns \ {"SALARY"}, <<>>)}
    \cup {File(".csv", TRUE, required_columns, <<r>>) : r \in ConcRows}

\* A request can be taken by worker p.
CanStart(p) == FirstFree(p) /\ started < MaxRequests

StartUpload(p) ==
    /\ CanStart(p)
    /\ \E f \in ConcFiles : Apply(p, [db |-> DB, r |-> BeginUpload(DB, f)])
    /\ started' = started + 1
    /\ UNCHANGED uploaded

StartList(p) ==
    /\ CanStart(p)
    /\ Apply(p, [db |-> DB, r |-> BeginList(DB)])
    /\ started' = started + 1
    /\ UNCHANGED uploaded

Check(p) ==
    /\ req[p].pc = "check"
    /\ Apply(p, CheckStep(DB, req[p]))
    /\ UNCHANGED <<uploaded, started>>

Insert(p) ==
    /\ req[p].pc = "insert"
    /\ Apply(p, InsertStep(DB, req[p]))
    /\ UNCHANGED <<uploaded, started>>

Resolve(p) ==
    /\ req[p].pc = "resolve"
    /\ Apply(p, ResolveStep(DB, req[p]))
    /\ UNCHANGED <<uploaded, started>>

Save(p) ==
    /\ req[p].pc = "save"
    /\ Apply(p, SaveStep(DB, req[p]))
    /\ UNCHANGED <<uploaded, started>>

Except(p) ==
    /\ req[p].pc = "except"
    /\ Apply(p, ExceptStep(DB, req[p]))
    /\ UNCHANGED <<uploaded, started>>

Query(p) ==
    /\ req[p].pc = "query"
    /\ Apply(p, QueryStep(DB, req[p]))
    /\ UNCHANGED <<uploaded, started>>

Finally(p) ==
    /\ req[p].pc = "finally"
    /\ Apply(p, FinallyStep(DB, req[p]))
    /\ UNCHANGED <<uploaded, started>>

NextConc ==
    \E p \in Procs :
        \/ StartUpload(p)
        \/ StartList(p)
        \/ Check(p)
        \/ Insert(p)
        \/ Resolve(p)
        \/ Save(p)
        \/ Except(p)
        \/ Query(p)
        \/ Finally(p)
        \/ Respond(p)

SpecConc == Init /\ [][NextConc]_vars

\* ------------------------------------------------------------- properties
UploadDone(p) == req[p].pc = "done" /\ req[p].handler = "upload"
ListDone(p) == req[p].pc = "done" /\ req[p].handler = "list"

\* The upload of worker p failed in the persistence phase.
Failed500(p) == UploadDone(p) /\ req[p].status = 500

\* The file fails one of the three validations of lines 72-88.
Invalid(f) ==
    \/ f.ext \notin {".xlsx", ".csv"}
    \/ ~f.readable
    \/ \E c \in {"EMPLOYEE_ID", "FIRST_NAME", "LAST_NAME", "PHONE_NUMBER",
                 "COMPANY_NAME", "SALARY", "MANAGER_ID", "DEPARTMENT_ID"} :
            c \notin f.columns

\* The COMPANY_NAME cells and the employee numbers (tenths) of a file's rows
NameCells(f) == {f.rows[i].COMPANY_NAME : i \in 1..Len(f.rows)}
NumberCells(f) == {f.rows[i].EMPLOYEE_ID : i \in 1..Len(f.rows)}

\* The names stored in a companies table
StoredNames(table) == {table[j].company_name : j \in 1..Len(table)} \ {None}
StoredNumbers(table) == {table[j].employee_id : j \in 1..Len(table)}

\* Every cell of the file can be coerced and every row names a company.
WellFormed(f) ==
    /\ ~Invalid(f)
    /\ NaN \notin NameCells(f)
    /\ NaN \notin NumberCells(f)

\* The rows of a table past those of an earlier table
Gained(table, before) == SubSeq(table, Len(before) + 1, Len(table))

\* C1: all-or-nothing ingestion: after an upload that failed with 500 in the
\* persistence phase, both tables equal their state before the request.
C1_AllOrNothing ==
    \A p \in Procs :
        Failed500(p) =>
            /\ companies = req[p].pre.companies
            /\ employees = req[p].pre.employees

\* C2 as claimed: the second upload of a file that was uploaded with success
\* succeeds with companies_created = 0 and adds its M rows to employees.
C2_ReuploadSucceeds ==
    \A p \in Procs :
        (UploadDone(p) /\ req[p].file \in uploaded) =>
            /\ req[p].status = 200
            /\ req[p].companies_created = 0
            /\ Len(employees) = Len(req[p].pre.employees) + Len(req[p].file.rows)

\* C2 as amended: the second upload of a file of M >= 1 rows that was uploaded
\* with success fails with 500 on the unique employee number and leaves both
\* tables as they were; a file of no rows succeeds again and creates nothing.
C2_ReuploadRejected ==
    \A p \in Procs :
        (UploadDone(p) /\ req[p].file \in uploaded) =>
            /\ companies = req[p].pre.companies
            /\ employees = req[p].pre.employees
            /\ req[p].companies_created = 0
            /\ req[p].employees_created = 0
            /\ IF req[p].file.rows = <<>>
               THEN req[p].status = 200
               ELSE /\ req[p].status = 500
                    /\ req[p].raised = "UNIQUE constraint failed: employees.employee_id"

C2_Witness ==
    \E p \in Procs :
        /\ UploadDone(p)
        /\ req[p].file \in uploaded
        /\ Len(req[p].file.rows) = MaxRows
        /\ req[p].status = 500

\* C3: with uploads served one after the other, no two Company rows have the
\* same name (a row whose name is NULL has no name); an upload creates no
\* Company row for a name that was stored before it, and after it every name
\* of its file is stored in exactly one row.
C3_UniqueCompanyNames ==
    /\ \A i, j \in 1..Len(companies) :
           (i # j /\ companies[i].company_name = companies[j].company_name)
               => companies[i].company_name = None
    /\ \A p \in Procs :
           (UploadDone(p) /\ ~Invalid(req[p].file)) =>
               /\ StoredNames(Gained(companies, req[p].pre.companies))
                      \cap StoredNames(req[p].pre.companies) = {}
               /\ \A c \in NameCells(req[p].file) \ {NaN} :
                      Cardinality({j \in 1..Len(companies) :
                                     companies[j].company_name = Some(c.v)}) = 1

C3_Witness ==
    \E p \in Procs :
        /\ UploadDone(p)
        /\ StoredNames(req[p].pre.companies) = {Some("A")}
        /\ NameCells(req[p].file) = {Cell("A"), Cell("B")}
        /\ StoredNames(companies) = {Some("A"), Some("B")}
        /\ Len(companies) = 2

\* C4 as claimed: the upload of a well-formed file with N distinct company
\* names, none of them stored, and M rows answers companies_created = N and
\* employees_created = M, and the tables gain N and M rows.
C4_Counts(p) ==
    /\ req[p].status = 200
    /\ req[p].companies_created = Cardinality(NameCells(req[p].file))
    /\ req[p].employees_created = Len(req[p].file.rows)
    /\ Len(companies) = Len(req[p].pre.companies) + Cardinality(NameCells(req[p].file))
    /\ Len(employees) = Len(req[p].pre.employees) + Len(req[p].file.rows)

C4_NewNames(p) ==
    /\ UploadDone(p)
    /\ WellFormed(req[p].file)
    /\ \A c \in NameCells(req[p].file) : Some(c.v) \notin StoredNames(req[p].pre.companies)

C4_FreshUploadCounts == \A p \in Procs : C4_NewNames(p) => C4_Counts(p)

\* The employee numbers of the file are pairwise distinct and none is stored.
C4_NewNumbers(p) ==
    /\ \A i, j \in 1..Len(req[p].file.rows) :
           i # j => req[p].file.rows[i].EMPLOYEE_ID.v \div 10
                        # req[p].file.rows[j].EMPLOYEE_ID.v \div 10
    /\ \A c \in NumberCells(req[p].file) :
           (c.v \div 10) \notin StoredNumbers(req[p].pre.employees)

\* C4 as amended: the same, for a file whose employee numbers are pairwise
\* distinct and not stored yet.
C4_FreshUploadCountsUniqueNumbers ==
    \A p \in Procs : (C4_NewNames(p) /\ C4_NewNumbers(p)) => C4_Counts(p)

C4_Witness ==
    \E p \in Procs :
        /\ C4_NewNames(p)
        /\ C4_NewNumbers(p)
        /\ req[p].pre.companies # <<>>
        /\ Len(req[p].file.rows) = MaxRows
        /\ Cardinality(NameCells(req[p].file)) = 1
        /\ req[p].status = 200

\* Worker p found the name n absent at its existence check and has run its
\* INSERT of the new companies (lines 95-99).
InsertedNew(p, n) ==
    /\ req[p].handler = "upload"
    /\ req[p].pc \in {"resolve", "save", "except", "finally", "done"}
    /\ \E i \in 1..Len(req[p].new_companies) : req[p].new_companies[i] = Cell(n)

RowsNamed(n) == {j \in 1..Len(companies) : companies[j].company_name = Some(n)}

\* C5 as claimed: two concurrent uploads that both found a shared name absent
\* and both ran their INSERT leave two Company rows of that name.
C5_RaceDuplicates ==
    \A p, q \in Procs : \A n \in {"A", "B"} :
        (p # q /\ InsertedNew(p, n) /\ InsertedNew(q, n)) =>
            Cardinality(RowsNamed(n)) = 2

\* C5 as amended: two concurrent uploads can both find a shared name absent,
\* but the unique constraint on companies.company_name rejects the INSERT of
\* the second: that upload raises IntegrityError (and answers 500), and no
\* state has two Company rows of one name.
C5_RaceRejectedByConstraint ==
    /\ \A n \in {"A", "B"} : Cardinality(RowsNamed(n)) <= 1
    /\ \A p, q \in Procs : \A n \in {"A", "B"} :
           (p # q /\ InsertedNew(p, n) /\ InsertedNew(q, n)) =>
               /\ Cardinality(RowsNamed(n)) = 1
               /\ \E w \in {p, q} :
                      /\ req[w].raised = "UNIQUE constraint failed: companies.company_name"
                      /\ req[w].pc = "done" => req[w].status = 500

C5_Witness ==
    \E p, q \in Procs :
        /\ p # q
        /\ InsertedNew(p, "A") /\ InsertedNew(q, "A")
        /\ req[p].pc = "done" /\ req[p].status = 200
        /\ req[q].pc = "done" /\ req[q].status = 500
        /\ req[q].raised = "UNIQUE constraint failed: companies.company_name"

\* C6: an upload rejected at validation (extension, unreadable content, a
\* missing required column) answers 400 and leaves both tables unchanged; a
\* file with an unsupported extension is not read.
C6_RejectedLeavesStore ==
    \A p \in Procs :
        (UploadDone(p) /\ Invalid(req[p].file)) =>
            /\ req[p].status = 400
            /\ companies = req[p].pre.companies
            /\ employees = req[p].pre.employees
            /\ req[p].file.ext \notin {".xlsx", ".csv"} => ~req[p].content_read

C6_Witness ==
    \E p \in Procs :
        /\ UploadDone(p)
        /\ req[p].status = 400
        /\ req[p].file.ext = ".csv" /\ req[p].file.readable
        /\ "DEPARTMENT_ID" \notin req[p].file.columns
        /\ employees # <<>>

\* C7: after a successful upload get_employees answers with one entry per
\* ingested row, and the entry's company_name is the COMPANY_NAME cell the
\* row had at ingestion.  (Refuted: a row with an empty SALARY cell is
\* stored with a NULL salary, and building its EmployeeResponse raises.)
C7_ListingMatchesCells ==
    \A p \in Procs :
        ListDone(p) =>
            /\ req[p].status = 200
            /\ Len(req[p].result) = Len(ingested)
            /\ \A i \in 1..Len(ingested) :
                   /\ ingested[i] # NaN
                   /\ req[p].result[i].company_name = Some(ingested[i].v)

\* The value persisted for an optional identifier cell
PersistedOptional(c, value) ==
    IF c = NaN THEN value = None /\ value # Some(0)
    ELSE value = Some(c.v \div 10)

\* C8: for every ingested row, an empty MANAGER_ID or DEPARTMENT_ID cell is
\* persisted as absent, never as zero, and a non-empty cell as its integer
\* value.
C8_OptionalIds ==
    \A p \in Procs :
        (UploadDone(p) /\ req[p].status = 200) =>
            \A i \in 1..Len(req[p].file.rows) :
                LET e == employees[Len(req[p].pre.employees) + i]
                    row == req[p].file.rows[i]
                IN  /\ PersistedOptional(row.MANAGER_ID, e.manager_id)
                    /\ PersistedOptional(row.DEPARTMENT_ID, e.department_id)

C8_Witness ==
    \E p \in Procs :
        /\ UploadDone(p) /\ req[p].status = 200
        /\ \E i, j \in 1..Len(employees) :
               /\ employees[i].manager_id = None
               /\ employees[i].department_id = Some(2)
               /\ employees[j].manager_id = Some(0)
               /\ employees[j].department_id = None

\* C9: a request that acquired a session has released it when it ends, on
\* the success path and on the 500 path; a request rejected at validation
\* never held one; a session is open only inside a handler's try block.
C9_SessionsReleased ==
    \A p \in Procs :
        /\ req[p].pc = "idle" => req[p].session = "none"
        /\ req[p].pc = "done" =>
               IF req[p].status = 400 THEN req[p].session = "none"
               ELSE req[p].status \in {200, 500} /\ req[p].session = "closed"
        /\ req[p].session = "open" =>
               req[p].pc \in {"check", "insert", "resolve", "save",
                              "except", "query", "finally"}

C9_Witness ==
    \E p, q \in Procs :
        /\ p # q
        /\ UploadDone(p) /\ req[p].status = 500 /\ req[p].session = "closed"
        /\ ListDone(q) /\ req[q].session = "closed"

\* C10: every Employee row refers to an existing Company row, and so does
\* every Employee a handler has constructed and not yet saved.
HasCompany(id) == \E j \in 1..Len(companies) : companies[j].id = id

C10_CompanyExists ==
    /\ \A i \in 1..Len(employees) : HasCompany(employees[i].company_id)
    /\ \A p \in Procs : \A i \in 1..Len(req[p].employees_to_create) :
           HasCompany(req[p].employees_to_create[i].company_id)

C10_Witness ==
    /\ Len(employees) = 2
    /\ employees[1].company_id = 2
    /\ employees[2].company_id = 1
====
